---- MODULE Spec2Model ----
(***************************************************************************)
(* Model of the Garmin activity cache: the incremental sync engine         *)
(* (GarminSyncService.syncActivities) writing the activities table, the    *)
(* gated read-only query interface (GarminDataService.runQuery), the HTTP  *)
(* server's request handler, GarminService.ensureAuthenticated and the     *)
(* console-suppressing calls.                                              *)
(***************************************************************************)
EXTENDS Integers, Sequences, FiniteSets, Bags, TLC

VARIABLES
    store,          \* the activities table: a bag of rows
    remote,         \* the provider's activity list, as getActivities pages it
    pc,             \* pc[r]: position of sync invocation r
    db,             \* db[r]: the invocation's database handle ("null" or "open")
    handles,        \* handles[r]: the connection the invocation opened, if any
    start,          \* start[r]: pagination offset
    page,           \* page[r]: the page most recently returned by getActivities
    newActivities,  \* newActivities[r]: pending buffer
    result,         \* result[r]: the SyncResult returned by the invocation
    env,            \* env[r]: the credentials process.env held at the call
    calls,          \* calls[r]: calls issued by the invocation so far
    store0,         \* store0[r]: the table when the invocation started
    qtext,          \* the text handed to runQuery
    qresult,        \* what runQuery returned or threw
    MAX_QUERY_CHARS, \* process.env.MAX_QUERY_CHARS
    transports,     \* the HTTP server's session map: the session ids it holds
    API_KEY,        \* process.env.API_KEY
    req,            \* the HTTP request handled last
    res,            \* the response it was given
    connecting,     \* POST requests past the session cap check, not yet registered
    isAuthenticated, \* GarminService.isAuthenticated
    lastAuthTime,   \* GarminService.lastAuthTime
    clock,          \* Date.now()
    now,            \* the local now of the ensureAuthenticated call in flight
    apc,            \* position of the GarminService operation
    lastLogin,      \* history: when the last login was issued and how it ended
    console,        \* console[m]: the function bound to console.m
    originals,      \* originals[c]: the functions call c saved as the originals
    cpc             \* cpc[c]: the console-suppressing call c is running

syncVars == <<remote, pc, db, handles, start, page, newActivities, result, env,
              calls, store0>>

queryVars == <<qtext, qresult, MAX_QUERY_CHARS>>

httpVars == <<transports, API_KEY, req, res, connecting>>

authVars == <<isAuthenticated, lastAuthTime, clock, now, apc, lastLogin>>

consoleVars == <<console, originals, cpc>>

serviceVars == <<authVars, consoleVars>>

vars == <<store, syncVars, queryVars, httpVars, serviceVars>>

-----------------------------------------------------------------------------
(* Bounds of the model *)

MaxTime == 3        \* timestamps are the texts 1..MaxTime, in calendar order
MaxRemote == 3      \* the remote holds at most MaxRemote records
PageSize == 2       \* records per page
MaxSegments == 3    \* words and quoted literals after a query's first word
MaxSystemRemote == 1 \* records of the remote when queries run between syncs
MaxSessions == 2    \* MAX_SESSIONS: sessions the HTTP server holds at a time
MaxConnecting == 2  \* POST requests suspended at server.connect at a time
MaxUnparsedRemote == 2 \* records of a remote that holds texts that are no dates
MaxRaceRemote == 3  \* records of the remote two invocations race on
MaxLiveRemote == 3  \* records of the remote the termination is checked on
AuthTimeout == 2    \* authTimeout, in ticks of the clock
MaxClock == 5       \* the clock stops after MaxClock ticks

Ids == {41, 42}             \* activity ids supplied by the remote
UntimedIds == {41}          \* ids the remote may report without a start time
StoredTimes == {2}          \* start times of rows cached by earlier runs
StoredCalories == {300}     \* metric values of rows cached by earlier runs
RemoteCalories == {310}     \* metric values the remote reports now
Runs == {1}                 \* sync invocations

-----------------------------------------------------------------------------
(* Values *)

NULL == 0           \* SQL NULL, and JavaScript null
NaN == -1           \* the time value of an Invalid Date

Times == 1..MaxTime

Min(a, b) == IF a <= b THEN a ELSE b

limit == PageSize

\* The columns of activitySchema that the model tracks: dbKey and garminKey.
activitySchema ==
    << [dbKey |-> "activity_id", garminKey |-> "activityId"],
       [dbKey |-> "start_time_local", garminKey |-> "startTimeLocal"],
       [dbKey |-> "calories", garminKey |-> "calories"] >>

DbKeys == {activitySchema[i].dbKey : i \in 1..Len(activitySchema)}

GarminKeyOf(k) ==
    LET i == CHOOSE j \in 1..Len(activitySchema) : activitySchema[j].dbKey = k
    IN activitySchema[i].garminKey

\* getNested: the value at the path, undefined (bound as NULL) when absent.
getNested(obj, path) == IF path \in DOMAIN obj THEN obj[path] ELSE NULL

\* The row bound to the INSERT statement for one remote record.
ParamsOf(activity) == [k \in DbKeys |-> getNested(activity, GarminKeyOf(k))]

\* Remote activity objects: startTimeLocal may be absent.
RemoteRecords ==
    [activityId : Ids, startTimeLocal : Times, calories : RemoteCalories]
    \cup [activityId : UntimedIds, calories : RemoteCalories]

RECURSIVE SeqsUpTo(_, _)
SeqsUpTo(S, n) ==
    IF n = 0 THEN {<<>>}
    ELSE LET shorter == SeqsUpTo(S, n - 1)
         IN shorter \cup {Append(s, x) : s \in {t \in shorter : Len(t) = n - 1}, x \in S}

Remotes == SeqsUpTo(RemoteRecords, MaxRemote)

\* Tables with the primary key respected, as earlier runs may have left them.
SeedStores ==
    {SetToBag(s) : s \in
        {t \in SUBSET [activity_id : Ids, start_time_local : StoredTimes \cup {NULL},
                       calories : StoredCalories] :
            \A a, b \in t : a.activity_id = b.activity_id => a = b}}

-----------------------------------------------------------------------------
(* Local store *)

\* A startTimeLocal text that is no date; as TEXT it sorts after the
\* timestamps.
Garbage == MaxTime + 1

\* new Date(text) as new Date(null): the epoch where the text is no date.
NewDateEpoch(text) == IF text \in {NULL, Garbage} THEN 0 ELSE text

\* new Date(text): Invalid Date for undefined and for a text that is no date.
NewDate(text) == IF text \in {NULL, Garbage} THEN NaN ELSE text

\* DateLE with < in place of <=.
DateLT(a, b) == a # NaN /\ b # NaN /\ a < b

\* a <= b on Dates: false when either side is an Invalid Date.
DateLE(a, b) == a # NaN /\ b # NaN /\ a <= b

MaxOf(S) == CHOOSE m \in S : \A x \in S : x <= m

\* SELECT MAX(start_time_local): NULLs are ignored; NULL on no value.
MaxStartTimeLocal(table) ==
    LET vals == {row.start_time_local : row \in BagToSet(table)} \ {NULL}
    IN IF vals = {} THEN NULL ELSE MaxOf(vals)

\* getLatestActivityDate: null on no data, else the Date of the maximum.
getLatestActivityDate(table) ==
    LET latest_date == MaxStartTimeLocal(table)
    IN IF latest_date = NULL THEN NULL ELSE NewDate(latest_date)

getActivitiesCount(table) == BagCardinality(table)

\* InsertOrReplace as INSERT OR IGNORE: a stored row with the key stays.
InsertOrIgnore(table, row) ==
    IF \E old \in BagToSet(table) : old.activity_id = row.activity_id
    THEN table
    ELSE table (+) SetToBag({row})

\* InsertOrReplace as INSERT into a table without primary key.
InsertPlain(table, row) == table (+) SetToBag({row})

\* INSERT OR REPLACE of one row: a row with the same primary key is deleted.
InsertOrReplace(table, row) ==
    LET kept == {old \in BagToSet(table) : old.activity_id # row.activity_id}
    IN [old \in kept |-> table[old]] (+) SetToBag({row})

\* The statements of the transaction, applied in order to the working copy.
RECURSIVE RunAll(_, _, _)
RunAll(table, activities, bad) ==
    IF activities = <<>> THEN table
    ELSE LET i == Len(activities)
             before == RunAll(table, SubSeq(activities, 1, i - 1), bad)
         IN IF i \in bad THEN before
            ELSE InsertOrReplace(before, ParamsOf(activities[i]))

\* saveActivities without the ROLLBACK.
saveActivitiesNoRollback(table, activities, bad) ==
    LET errors == Cardinality(bad)
        saved == Len(activities) - errors
        working == RunAll(table, activities, bad)
    IN [table |-> working, ok |-> errors = 0, saved |-> saved, errors |-> errors]

\* saveActivities: BEGIN, one INSERT OR REPLACE per record (those in bad
\* fail), then ROLLBACK when any failed, else COMMIT.
saveActivities(table, activities, bad) ==
    LET errors == Cardinality(bad)
        saved == Len(activities) - errors
        working == RunAll(table, activities, bad)
    IN IF errors > 0
       THEN [table |-> table, ok |-> FALSE, saved |-> saved, errors |-> errors]
       ELSE [table |-> working, ok |-> TRUE, saved |-> saved, errors |-> errors]

-----------------------------------------------------------------------------
(* Incremental sync *)

\* A SyncResult; error is the message, errorArg the number spliced into it.
NoResult == [newActivitiesCount |-> 0, totalActivities |-> 0,
             latestActivityDate |-> NULL, error |-> "pending", errorArg |-> 0]

ErrorResult(msg, n) == [newActivitiesCount |-> 0, totalActivities |-> 0,
                        latestActivityDate |-> NULL, error |-> msg, errorArg |-> n]

NoCalls == [initializeDatabase |-> 0, login |-> 0, getActivities |-> 0]


\* The for loop over one page: records are pushed until the first one that
\* is not newer than the latest stored date.
RECURSIVE ClassifyFrom(_, _, _)
ClassifyFrom(latestActivityDate, activities, i) ==
    IF i > Len(activities) THEN [pushed |-> <<>>, stopNextTime |-> FALSE]
    ELSE IF latestActivityDate # NULL
            /\ DateLE(NewDate(getNested(activities[i], "startTimeLocal")), latestActivityDate)
         THEN [pushed |-> <<>>, stopNextTime |-> TRUE]
         ELSE LET rest == ClassifyFrom(latestActivityDate, activities, i + 1)
              IN [pushed |-> <<activities[i]>> \o rest.pushed,
                  stopNextTime |-> rest.stopNextTime]

ClassifyPage(latestActivityDate, activities) ==
    ClassifyFrom(latestActivityDate, activities, 1)

\* gc.getActivities(start, limit) on the provider's list.
getActivities(list, offset, size) ==
    SubSeq(list, offset + 1, Min(offset + size, Len(list)))

\* The invocation returns: its locals go out of scope.
Return(r) ==
    /\ pc' = [pc EXCEPT ![r] = "done"]
    /\ start' = [start EXCEPT ![r] = 0]
    /\ page' = [page EXCEPT ![r] = <<>>]
    /\ newActivities' = [newActivities EXCEPT ![r] = <<>>]

\* finally { if (db) await this.closeDatabase(db) }
closeDatabase(r) ==
    /\ db' = [db EXCEPT ![r] = "null"]
    /\ handles' = [handles EXCEPT ![r] = IF db[r] = "open" THEN "closed" ELSE "none"]

\* catch: the error result; finally: the handle, if any, is closed.
Throw(r, msg, n) ==
    /\ result' = [result EXCEPT ![r] = ErrorResult(msg, n)]
    /\ closeDatabase(r)
    /\ Return(r)

\* initializeDatabase rejects after new sqlite3.Database has connected:
\* db is still null in the finally block.
ThrowCreateTable(r) ==
    /\ result' = [result EXCEPT ![r] = ErrorResult("Error creating activities table", 0)]
    /\ handles' = [handles EXCEPT ![r] = "open"]
    /\ UNCHANGED db
    /\ Return(r)

\* SyncStart with initializeDatabase ahead of the credential check.
SyncStartOpensFirst(r, username, password, opens) ==
    /\ pc[r] \in {"idle", "done"}
    /\ store0' = [store0 EXCEPT ![r] = store]
    /\ env' = [env EXCEPT ![r] = [username |-> username, password |-> password]]
    /\ calls' = [calls EXCEPT ![r] = [NoCalls EXCEPT !.initializeDatabase = 1]]
    /\ IF opens = "open error"
       THEN Throw(r, "Error opening database", 0)
       ELSE IF opens = "create error"
       THEN ThrowCreateTable(r)
       ELSE IF ~username \/ ~password
       THEN /\ result' = [result EXCEPT ![r] = ErrorResult(
                    "Missing GARMIN_USERNAME or GARMIN_PASSWORD in environment variables", 0)]
            /\ handles' = [handles EXCEPT ![r] = "closed"]
            /\ UNCHANGED db
            /\ Return(r)
       ELSE /\ db' = [db EXCEPT ![r] = "open"]
            /\ handles' = [handles EXCEPT ![r] = "open"]
            /\ pc' = [pc EXCEPT ![r] = "login"]
            /\ result' = [result EXCEPT ![r] = NoResult]
            /\ UNCHANGED <<start, page, newActivities>>
    /\ UNCHANGED <<store, remote, queryVars, httpVars, serviceVars>>

\* syncActivities is called: credential check, then initializeDatabase.
SyncStart(r, username, password, opens) ==
    /\ pc[r] \in {"idle", "done"}
    /\ store0' = [store0 EXCEPT ![r] = store]
    /\ env' = [env EXCEPT ![r] = [username |-> username, password |-> password]]
    /\ IF ~username \/ ~password
       THEN /\ Throw(r, "Missing GARMIN_USERNAME or GARMIN_PASSWORD in environment variables", 0)
            /\ calls' = [calls EXCEPT ![r] = NoCalls]
       ELSE /\ calls' = [calls EXCEPT ![r] = [NoCalls EXCEPT !.initializeDatabase = 1]]
            /\ IF opens = "open error"
               THEN Throw(r, "Error opening database", 0)
               ELSE IF opens = "create error"
               THEN ThrowCreateTable(r)
               ELSE /\ db' = [db EXCEPT ![r] = "open"]
                    /\ handles' = [handles EXCEPT ![r] = "open"]
                    /\ pc' = [pc EXCEPT ![r] = "login"]
                    /\ result' = [result EXCEPT ![r] = NoResult]
                    /\ UNCHANGED <<start, page, newActivities>>
    /\ UNCHANGED <<store, remote, queryVars, httpVars, serviceVars>>

\* Login that calls gc.login() a second time when the first call is rejected.
LoginRetries(r, outcome) ==
    /\ pc[r] = "login"
    /\ IF outcome = "ok"
       THEN /\ calls' = [calls EXCEPT ![r].login = @ + 1]
            /\ pc' = [pc EXCEPT ![r] = "fetch"]
            /\ UNCHANGED <<result, db, handles, start, page, newActivities>>
       ELSE /\ calls' = [calls EXCEPT ![r].login = @ + 2]
            /\ Throw(r, "login error", 0)
    /\ UNCHANGED <<store, remote, env, store0, queryVars, httpVars, serviceVars>>

\* await gc.login()
Login(r, outcome) ==
    /\ pc[r] = "login"
    /\ calls' = [calls EXCEPT ![r].login = @ + 1]
    /\ CASE outcome = "ok" ->
              /\ pc' = [pc EXCEPT ![r] = "fetch"]
              /\ UNCHANGED <<result, db, handles, start, page, newActivities>>
         [] outcome = "login page" ->
              Throw(r, "Garmin authentication failed", 0)
         [] OTHER ->
              Throw(r, "login error", 0)
    /\ UNCHANGED <<store, remote, env, store0, queryVars, httpVars, serviceVars>>

\* GetActivities that saves the buffer before it reports a failed fetch.
GetActivitiesFlush(r, ok) ==
    /\ pc[r] = "fetch"
    /\ calls' = [calls EXCEPT ![r].getActivities = @ + 1]
    /\ IF ok
       THEN /\ page' = [page EXCEPT ![r] = getActivities(remote, start[r], limit)]
            /\ pc' = [pc EXCEPT ![r] = "classify"]
            /\ UNCHANGED <<store, result, db, handles, start, newActivities>>
       ELSE /\ store' = saveActivities(store, newActivities[r], {}).table
            /\ Throw(r, "fetch error", 0)
    /\ UNCHANGED <<remote, env, store0, queryVars, httpVars, serviceVars>>

\* await gc.getActivities(start, limit)
GetActivities(r, ok) ==
    /\ pc[r] = "fetch"
    /\ calls' = [calls EXCEPT ![r].getActivities = @ + 1]
    /\ IF ok
       THEN /\ page' = [page EXCEPT ![r] = getActivities(remote, start[r], limit)]
            /\ pc' = [pc EXCEPT ![r] = "classify"]
            /\ UNCHANGED <<result, db, handles, start, newActivities>>
       ELSE Throw(r, "fetch error", 0)
    /\ UNCHANGED <<store, remote, env, store0, queryVars, httpVars, serviceVars>>

\* Classify that ends the loop after the first page that holds records.
ClassifyOnePage(r) ==
    /\ pc[r] = "classify"
    /\ IF Len(page[r]) > 0
       THEN LET c == ClassifyPage(getLatestActivityDate(store), page[r])
            IN newActivities' = [newActivities EXCEPT ![r] = @ \o c.pushed]
       ELSE UNCHANGED newActivities
    /\ pc' = [pc EXCEPT ![r] = "save"]
    /\ UNCHANGED <<store, remote, db, handles, start, page, result, env, calls, store0, queryVars, httpVars, serviceVars>>

\* Classify that ends the loop on the stop signal only: it waits on an
\* empty page.
ClassifyWaits(r) ==
    /\ pc[r] = "classify"
    /\ IF Len(page[r]) > 0
       THEN LET c == ClassifyPage(getLatestActivityDate(store), page[r])
            IN /\ newActivities' = [newActivities EXCEPT ![r] = @ \o c.pushed]
               /\ IF c.stopNextTime
                  THEN /\ pc' = [pc EXCEPT ![r] = "save"]
                       /\ UNCHANGED start
                  ELSE /\ pc' = [pc EXCEPT ![r] = "fetch"]
                       /\ start' = [start EXCEPT ![r] = @ + limit]
       ELSE UNCHANGED <<pc, newActivities, start>>
    /\ UNCHANGED <<store, remote, db, handles, page, result, env, calls, store0, queryVars, httpVars, serviceVars>>

\* The body of the while loop after the page has arrived.
Classify(r) ==
    /\ pc[r] = "classify"
    /\ IF Len(page[r]) > 0
       THEN LET c == ClassifyPage(getLatestActivityDate(store), page[r])
            IN /\ newActivities' = [newActivities EXCEPT ![r] = @ \o c.pushed]
               /\ IF c.stopNextTime
                  THEN /\ pc' = [pc EXCEPT ![r] = "save"]
                       /\ UNCHANGED start
                  ELSE /\ pc' = [pc EXCEPT ![r] = "fetch"]
                       /\ start' = [start EXCEPT ![r] = @ + limit]
       ELSE /\ pc' = [pc EXCEPT ![r] = "save"]
            /\ UNCHANGED <<newActivities, start>>
    /\ UNCHANGED <<store, remote, db, handles, page, result, env, calls, store0, queryVars, httpVars, serviceVars>>

\* if (newActivities.length > 0) await saveActivities(db, newActivities)
Save(r, bad) ==
    /\ pc[r] = "save"
    /\ IF Len(newActivities[r]) > 0
       THEN LET s == saveActivities(store, newActivities[r], bad)
            IN /\ store' = s.table
               /\ IF s.ok
                  THEN /\ pc' = [pc EXCEPT ![r] = "report"]
                       /\ UNCHANGED <<result, db, handles, start, page, newActivities>>
                  ELSE Throw(r, "activities failed to save", s.errors)
       ELSE /\ bad = {}
            /\ pc' = [pc EXCEPT ![r] = "report"]
            /\ UNCHANGED <<store, result, db, handles, start, page, newActivities>>
    /\ UNCHANGED <<remote, env, calls, store0, queryVars, httpVars, serviceVars>>

\* The counts are read back and the SyncResult is returned; finally closes.
Report(r) ==
    /\ pc[r] = "report"
    /\ result' = [result EXCEPT ![r] =
                    [newActivitiesCount |-> Len(newActivities[r]),
                     totalActivities |-> getActivitiesCount(store),
                     latestActivityDate |-> getLatestActivityDate(store),
                     error |-> "none", errorArg |-> 0]]
    /\ closeDatabase(r)
    /\ Return(r)
    /\ UNCHANGED <<store, remote, env, calls, store0, queryVars, httpVars, serviceVars>>

\* One invocation in which no call fails, as a function of the table and
\* the provider's list: the buffer the while loop collects ...
RECURSIVE Paginate(_, _, _, _)
Paginate(table, list, offset, buffer) ==
    LET activities == getActivities(list, offset, limit)
    IN IF Len(activities) > 0
       THEN LET c == ClassifyPage(getLatestActivityDate(table), activities)
            IN IF c.stopNextTime
               THEN buffer \o c.pushed
               ELSE Paginate(table, list, offset + limit, buffer \o c.pushed)
       ELSE buffer

\* ... and the table after it has been saved.
SyncOutcome(table, list) ==
    LET buffer == Paginate(table, list, 0, <<>>)
    IN IF Len(buffer) > 0 THEN saveActivities(table, buffer, {}).table ELSE table

-----------------------------------------------------------------------------
(* Query texts *)

\* A text is a sequence of atoms: a whole word (a maximal run of word
\* characters) or a single other character.
\* The three quote characters; "^" stands for the backquote, which a TLA+
\* string cannot hold.
SingleQuote == "'"
DoubleQuote == "\""
Backquote == "^"

Quotes == {SingleQuote, DoubleQuote, Backquote}

Punctuation == Quotes \cup {" ", ";", ",", "=", "*", "(", ")"}

IsWord(a) == a \notin Punctuation

\* toLowerCase / the i flag, on the words the model uses.
Lower(a) ==
    CASE a = "SELECT" -> "select"
      [] a = "WITH" -> "with"
      [] a = "DELETE" -> "delete"
      [] a = "UPDATE" -> "update"
      [] a = "DROP" -> "drop"
      [] a = "RETURNING" -> "returning"
      [] a = "FROM" -> "from"
      [] a = "TABLE" -> "table"
      [] a = "SET" -> "set"
      [] a = "AS" -> "as"
      [] a = "WHERE" -> "where"
      [] a = "IN" -> "in"
      [] a = "LIMIT" -> "limit"
      [] a = "REPLACE" -> "replace"
      [] a = "X" -> "x"
      [] a = "Bearer" -> "bearer"
      [] a = "Basic" -> "basic"
      [] OTHER -> a

\* The texts the spec and the README name.
DeleteText == <<"DELETE", " ", "FROM", " ", "activities">>

StackedText ==
    <<"SELECT", " ", "1", ";", " ", "DROP", " ", "TABLE", " ", "activities">>

UpdateText ==
    <<"UPDATE", " ", "activities", " ", "SET", " ", "calories", "=", "0">>

SelectText == <<"SELECT", " ", "*", " ", "FROM", " ", "activities">>

\* WITH t AS (SELECT 1 AS "'") DELETE FROM activities
\*   WHERE activity_id IN (SELECT "'" FROM t) RETURNING *
ReturningText ==
    <<"WITH", " ", "t", " ", "AS", " ", "(", "SELECT", " ", "1", " ", "AS", " ",
      DoubleQuote, SingleQuote, DoubleQuote, ")", " ",
      "DELETE", " ", "FROM", " ", "activities", " ", "WHERE", " ",
      "activity_id", " ", "IN", " ", "(", "SELECT", " ",
      DoubleQuote, SingleQuote, DoubleQuote, " ", "FROM", " ", "t", ")", " ",
      "RETURNING", " ", "*">>

\* SELECT 1 AS "'", replace('a', 'b', 'c') AS "'"
ReplaceText ==
    <<"SELECT", " ", "1", " ", "AS", " ",
      DoubleQuote, SingleQuote, DoubleQuote, ",", " ",
      "replace", "(", SingleQuote, "a", SingleQuote, ",", " ",
      SingleQuote, "b", SingleQuote, ",", " ",
      SingleQuote, "c", SingleQuote, ")", " ", "AS", " ",
      DoubleQuote, SingleQuote, DoubleQuote>>

\* ReturningText without its RETURNING clause.
WithDeleteText == SubSeq(ReturningText, 1, Len(ReturningText) - 4)

\* WITH t AS (SELECT 1) UPDATE activities SET calories=0 RETURNING *
WithUpdateText ==
    <<"WITH", " ", "t", " ", "AS", " ", "(", "SELECT", " ", "1", ")", " ",
      "UPDATE", " ", "activities", " ", "SET", " ", "calories", "=", "0", " ",
      "RETURNING", " ", "*">>

EmptyText == <<>>

BlankText == <<" ", " ">>

Select1Text == <<"SELECT", " ", "1">>

PaddedSelect1Text == <<" ", " ", "SELECT", " ", "1", " ", " ", " ">>

TerminatedText == <<"SELECT", " ", "1", ";">>

TwiceTerminatedText == <<"SELECT", " ", "1", ";", ";">>

\* SELECT * FROM activities WHERE description = 'DELETE this later'
KeywordInStringText ==
    <<"SELECT", " ", "*", " ", "FROM", " ", "activities", " ", "WHERE", " ",
      "description", " ", "=", " ",
      SingleQuote, "DELETE", " ", "this", " ", "later", SingleQuote>>

LimitText ==
    <<"SELECT", " ", "*", " ", "FROM", " ", "activities", " ", "LIMIT", " ", "1">>

PaddedLimitText ==
    <<" ", " ", "select", " ", "*", " ", "from", " ", "activities", " ",
      "limit", " ", "1">>

NamedTexts ==
    {DeleteText, StackedText, UpdateText, SelectText, ReturningText, ReplaceText,
     WithDeleteText, WithUpdateText, EmptyText, BlankText, Select1Text, PaddedSelect1Text,
     TerminatedText, TwiceTerminatedText, KeywordInStringText, LimitText,
     PaddedLimitText}

\* Texts built from a first word and up to MaxSegments segments, each a
\* word or a literal in one of the three quotings that holds a keyword or
\* one of the other two quote characters.
SegmentWords == {"replace", "x"}

Segments ==
    {<<w>> : w \in SegmentWords}
    \cup {<<q, "replace", q>> : q \in Quotes}
    \cup {<<pair[1], pair[2], pair[1]>> :
            pair \in {qp \in Quotes \X Quotes : qp[1] # qp[2]}}

RECURSIVE Spaced(_)
Spaced(segments) ==
    IF segments = <<>> THEN <<>>
    ELSE <<" ">> \o Head(segments) \o Spaced(Tail(segments))

SegmentTexts ==
    {<<first>> \o Spaced(segments) :
        first \in {"select", "with"}, segments \in SeqsUpTo(Segments, MaxSegments)}

QueryTexts == NamedTexts \cup SegmentTexts

RECURSIVE CharLength(_)
CharLength(text) ==
    IF text = <<>> THEN 0 ELSE Len(Head(text)) + CharLength(Tail(text))

-----------------------------------------------------------------------------
(* The query gateway: GarminDataService.runQuery *)

\* String.prototype.trim
RECURSIVE TrimStart(_)
TrimStart(text) ==
    IF text # <<>> /\ Head(text) = " " THEN TrimStart(Tail(text)) ELSE text

RECURSIVE TrimEnd(_)
TrimEnd(text) ==
    IF text # <<>> /\ text[Len(text)] = " "
    THEN TrimEnd(SubSeq(text, 1, Len(text) - 1))
    ELSE text

trim(text) == TrimEnd(TrimStart(text))

\* The text from position i on matches ;+\s*$
RECURSIVE OnlySpaces(_, _)
OnlySpaces(text, i) ==
    i > Len(text) \/ (text[i] = " " /\ OnlySpaces(text, i + 1))

RECURSIVE SemicolonsToEnd(_, _)
SemicolonsToEnd(text, i) ==
    /\ i <= Len(text)
    /\ text[i] = ";"
    /\ (SemicolonsToEnd(text, i + 1) \/ OnlySpaces(text, i + 1))

\* StripTrailingSemicolons without the replace.
StripNoSemicolons(text) == text

\* trimmed.replace(/;+\s*$/, ""): the leftmost match is removed.
StripTrailingSemicolons(text) ==
    LET matches == {i \in 1..Len(text) : SemicolonsToEnd(text, i)}
    IN IF matches = {} THEN text
       ELSE SubSeq(text, 1, (CHOOSE i \in matches : \A j \in matches : i <= j) - 1)

Includes(text, a) == \E i \in 1..Len(text) : text[i] = a

\* StartsWithSelectOrWith without the i flag.
StartsWithSelectOrWithExact(text) ==
    /\ Len(text) >= 1
    /\ text[1] \in {"select", "with"}
    /\ Len(text) >= 2 => ~IsWord(text[2])

\* /^(select|with)\b/i
StartsWithSelectOrWith(text) ==
    /\ Len(text) >= 1
    /\ Lower(text[1]) \in {"select", "with"}
    /\ Len(text) >= 2 => ~IsWord(text[2])

\* Where a match of q(?:qq|[^q])*q that opens at position i ends, 0 if there
\* is none.  The star takes non-quotes and pairs of quotes as far as it
\* can; a single quote then closes the match; at the end of the text the
\* regex backtracks to the first quote of the last pair it took.
RECURSIVE MatchEnd(_, _, _, _)
MatchEnd(text, q, j, lastPair) ==
    IF j > Len(text) THEN lastPair
    ELSE IF text[j] # q THEN MatchEnd(text, q, j + 1, lastPair)
    ELSE IF j + 1 <= Len(text) /\ text[j + 1] = q
         THEN MatchEnd(text, q, j + 2, j)
         ELSE j

\* text.replace(/q(?:qq|[^q])*q/g, "qq") from position i on.
RECURSIVE ScrubFrom(_, _, _)
ScrubFrom(text, q, i) ==
    IF i > Len(text) THEN <<>>
    ELSE IF text[i] # q THEN <<text[i]>> \o ScrubFrom(text, q, i + 1)
    ELSE LET e == MatchEnd(text, q, i + 1, 0)
         IN IF e = 0 THEN <<q>> \o ScrubFrom(text, q, i + 1)
            ELSE <<q, q>> \o ScrubFrom(text, q, e + 1)

\* The three replace calls, one quote character after the other.
Scrub(text) ==
    ScrubFrom(ScrubFrom(ScrubFrom(text, SingleQuote, 1), DoubleQuote, 1), Backquote, 1)

BlockedKeywords ==
    {"insert", "update", "delete", "drop", "alter", "create", "attach",
     "detach", "pragma", "reindex", "vacuum", "replace"}

\* /\b(insert|...|replace)\b/i.test(text)
HasBlockedKeyword(text) ==
    \E i \in 1..Len(text) :
        /\ IsWord(text[i])
        /\ Lower(text[i]) \in BlockedKeywords
        /\ i > 1 => ~IsWord(text[i - 1])
        /\ i < Len(text) => ~IsWord(text[i + 1])

\* A value of process.env: undefined, or a string given by its characters.
Undefined == [set |-> FALSE, text |-> <<>>]

Str(chars) == [set |-> TRUE, text |-> chars]

Digits == {"0", "1", "2", "3", "4", "5", "6", "7", "8", "9"}

DigitValue(c) ==
    CASE c = "0" -> 0 [] c = "1" -> 1 [] c = "2" -> 2 [] c = "3" -> 3
      [] c = "4" -> 4 [] c = "5" -> 5 [] c = "6" -> 6 [] c = "7" -> 7
      [] c = "8" -> 8 [] c = "9" -> 9

\* The number of digits the characters start with.
RECURSIVE LeadingDigits(_)
LeadingDigits(chars) ==
    IF chars # <<>> /\ Head(chars) \in Digits
    THEN 1 + LeadingDigits(Tail(chars))
    ELSE 0

RECURSIVE DecimalValue(_)
DecimalValue(digits) ==
    IF digits = <<>> THEN 0
    ELSE 10 * DecimalValue(SubSeq(digits, 1, Len(digits) - 1))
         + DigitValue(digits[Len(digits)])

\* parseInt(chars, 10): leading blanks, a sign, then the digits the rest
\* starts with; NaN when it starts with none.
parseInt(chars) ==
    LET t == TrimStart(chars)
        signed == t # <<>> /\ Head(t) \in {"-", "+"}
        body == IF signed THEN Tail(t) ELSE t
        k == LeadingDigits(body)
        magnitude == DecimalValue(SubSeq(body, 1, k))
    IN IF k = 0 THEN [nan |-> TRUE, value |-> 0]
       ELSE [nan |-> FALSE,
             value |-> IF signed /\ Head(t) = "-" THEN 0 - magnitude ELSE magnitude]

\* Math.max(1, parseInt(process.env.MAX_QUERY_CHARS || "50000", 10) || 50000)
MaxQueryChars(envValue) ==
    LET text == IF envValue.set /\ envValue.text # <<>>
                THEN envValue.text
                ELSE <<"5", "0", "0", "0", "0">>
        parsed == parseInt(text)
        n == IF parsed.nan \/ parsed.value = 0 THEN 50000 ELSE parsed.value
    IN IF n < 1 THEN 1 ELSE n

\* The settings runQuery is tried under.
QueryEnvs ==
    {Undefined} \cup
    {Str(chars) : chars \in {<<>>, <<"a", "b", "c">>, <<"0">>, <<"-", "5">>,
                             <<"8">>, <<"1", "2">>, <<"8", "x">>}}

-----------------------------------------------------------------------------
(* The SQL engine behind db.prepare and stmt.all *)

\* The engine's tokenizer: one pass, a quote opens a literal that runs to
\* the next single occurrence of the same quote (a doubled one is data).
RECURSIVE CloseOf(_, _, _)
CloseOf(text, q, j) ==
    IF j > Len(text) THEN 0
    ELSE IF text[j] # q THEN CloseOf(text, q, j + 1)
    ELSE IF j + 1 <= Len(text) /\ text[j + 1] = q THEN CloseOf(text, q, j + 2)
    ELSE j

RECURSIVE Tokens(_, _)
Tokens(text, i) ==
    IF i > Len(text) THEN <<>>
    ELSE IF text[i] \in Quotes
         THEN LET e == CloseOf(text, text[i], i + 1)
              IN IF e = 0 THEN <<"<unterminated>">>
                 ELSE <<"<literal>">> \o Tokens(text, e + 1)
    ELSE IF text[i] = " " THEN Tokens(text, i + 1)
    ELSE <<Lower(text[i])>> \o Tokens(text, i + 1)

\* Keywords the grammar never accepts as a name, and the verbs that write.
ReservedKeywords == {"insert", "update", "delete", "drop", "alter", "create"}

WriteVerbs == {"insert", "update", "delete", "replace"}

OtherStatements ==
    {"drop", "alter", "create", "attach", "detach", "pragma", "reindex", "vacuum"}

\* What the engine compiles the text to: "error" (prepare throws), "read",
\* "write", or "write returning" (a write whose statement returns rows).
\* The grammar is abstracted to the statement's verb.
Compile(text) ==
    LET toks == Tokens(text, 1)
        has(w) == \E i \in 1..Len(toks) : toks[i] = w
        hasAny(S) == \E i \in 1..Len(toks) : toks[i] \in S
        written == IF has("returning") THEN "write returning" ELSE "write"
    IN IF toks = <<>> \/ has("<unterminated>") \/ has(";") THEN "error"
       ELSE IF toks[1] = "select"
            THEN IF hasAny(ReservedKeywords) THEN "error" ELSE "read"
       ELSE IF toks[1] = "with"
            THEN IF hasAny(WriteVerbs) THEN written
                 ELSE IF has("select") THEN "read" ELSE "error"
       ELSE IF toks[1] \in WriteVerbs THEN written
       ELSE IF toks[1] \in OtherStatements THEN "write"
       ELSE "error"

\* getDatabase without the readonly option.
getDatabaseWritable == "readwrite"

\* getDatabase: new Database(dbPath, { readonly: true })
getDatabase == "readonly"

\* stmt.all() on a handle: a read returns the rows; a write changes the
\* table unless the handle is read-only, which makes the engine throw.
Step(handle, compiled, table) ==
    IF compiled = "read"
    THEN [error |-> "none", step |-> "none", rows |-> table, table |-> table,
          handle |-> "open"]
    ELSE IF handle = "readonly"
    THEN [error |-> "attempt to write a readonly database", step |-> "all",
          rows |-> EmptyBag, table |-> table, handle |-> "open"]
    ELSE [error |-> "none", step |-> "none", rows |-> table, table |-> EmptyBag,
          handle |-> "open"]

\* throw new Error(msg) at the named step, with the handle as it is then.
Rejected(step, msg, handle, table) ==
    [error |-> msg, step |-> step, rows |-> EmptyBag, table |-> table,
     handle |-> handle]

\* finally { db.close() }
Finally(out) == [out EXCEPT !.handle = "closed"]

\* runQuery(query) against the table: the error thrown ("none" if it
\* returns), the rows returned and the table afterwards.
runQuery(query, table) ==
    LET trimmed == trim(query)
        maxChars == MaxQueryChars(MAX_QUERY_CHARS)
        withoutTrailingSemicolons == StripTrailingSemicolons(trimmed)
        scrubbed == Scrub(withoutTrailingSemicolons)
    IN IF Len(trimmed) = 0
       THEN Rejected("empty", "Query cannot be empty.", "none", table)
       ELSE IF CharLength(trimmed) > maxChars
       THEN Rejected("length", "Query too large", "none", table)
       ELSE IF Includes(withoutTrailingSemicolons, ";")
       THEN Rejected("terminator", "Only a single SELECT statement is allowed.",
                     "none", table)
       ELSE IF ~StartsWithSelectOrWith(withoutTrailingSemicolons)
       THEN Rejected("prefix", "Only SELECT queries are allowed.", "none", table)
       ELSE IF HasBlockedKeyword(scrubbed)
       THEN Rejected("keyword", "Only SELECT queries are allowed.", "none", table)
       ELSE LET handle == getDatabase
                stmt == Compile(withoutTrailingSemicolons)
            IN Finally(
                 IF stmt = "error"
                 THEN Rejected("prepare", "SqliteError", "open", table)
                 ELSE IF stmt \notin {"read", "write returning"}
                 THEN Rejected("reader", "Only SELECT queries are allowed.",
                               "open", table)
                 ELSE Step(handle, stmt, table))

NoQueryResult ==
    [status |-> "pending", error |-> "none", step |-> "none", rows |-> EmptyBag,
     handle |-> "none"]

\* One call of runQuery on the text.
RunQuery ==
    /\ qresult.status = "pending"
    /\ LET out == runQuery(qtext, store)
       IN /\ store' = out.table
          /\ qresult' = [status |-> "returned", error |-> out.error,
                          step |-> out.step, rows |-> out.rows,
                          handle |-> out.handle]
    /\ UNCHANGED <<qtext, MAX_QUERY_CHARS, syncVars, httpVars, serviceVars>>

-----------------------------------------------------------------------------
(* The HTTP server: validateApiKey and the request handler *)

SessionIds == 1..MaxSessions

maxSessions == MaxSessions

ApiKeys == {Undefined, Str(<<>>), Str(<<"k1">>)}

AuthHeaders ==
    {Undefined, Str(<<>>), Str(<<"Bearer", " ", "k1">>),
     Str(<<"bearer", " ", " ", "k1", " ">>), Str(<<"Bearer", " ", "k2">>),
     Str(<<"Basic", " ", "k1">>)}

Methods == {"GET", "POST", "DELETE", "OPTIONS", "PUT"}

Pathnames == {"/mcp", "/", "/health", "/other"}

\* sessionId 0: no mcp-session-id header; initialize: the body is an
\* initialize request, on which the transport issues a session id (the
\* body is looked at for POST only).
Requests ==
    {request \in [method : Methods, pathname : Pathnames,
                  authorization : AuthHeaders,
                  sessionId : {0} \cup SessionIds, initialize : BOOLEAN] :
        request.initialize => request.method = "POST"}

NoRequest ==
    [method |-> "", pathname |-> "", authorization |-> Undefined,
     sessionId |-> 0, initialize |-> FALSE]

\* reached: a transport was handed the request or closed by it; created: a
\* session was registered in the map.
Response(statusCode, body, reached, created) ==
    [statusCode |-> statusCode, body |-> body, reached |-> reached,
     created |-> created]

NoResponse == Response(0, "", FALSE, FALSE)

\* No request has been handled and no session is held.
HttpIdle ==
    /\ transports = {}
    /\ connecting = 0
    /\ API_KEY = Undefined
    /\ req = NoRequest
    /\ res = NoResponse

\* validateApiKey that takes any Bearer header for the key.
validateApiKeyAnyBearer(request) ==
    IF ~API_KEY.set \/ API_KEY.text = <<>> THEN TRUE
    ELSE LET authHeader == request.authorization
         IN IF ~authHeader.set \/ authHeader.text = <<>> THEN FALSE
            ELSE LET t == trim(authHeader.text)
                 IN /\ Len(t) >= 3
                    /\ Lower(t[1]) = "bearer"
                    /\ t[2] = " "

\* validateApiKey(req)
validateApiKey(request) ==
    IF ~API_KEY.set \/ API_KEY.text = <<>> THEN TRUE
    ELSE LET authHeader == request.authorization
         IN IF ~authHeader.set \/ authHeader.text = <<>> THEN FALSE
            ELSE LET t == trim(authHeader.text)
                     match == /\ Len(t) >= 3
                              /\ Lower(t[1]) = "bearer"
                              /\ t[2] = " "
                 IN /\ match
                    /\ LET providedKey == trim(SubSeq(t, 3, Len(t)))
                       IN /\ providedKey # <<>>
                          /\ CharLength(providedKey) = CharLength(API_KEY.text)
                          /\ providedKey = API_KEY.text

\* The request handler of http.createServer; a session that is created
\* gets an id no session held has (randomUUID).
HandleRequest(request) ==
    /\ req' = request
    /\ UNCHANGED <<API_KEY, connecting, store, syncVars, queryVars, serviceVars>>
    /\ LET known == request.sessionId # 0 /\ request.sessionId \in transports
       IN IF request.method = "OPTIONS"
          THEN res' = Response(204, "", FALSE, FALSE) /\ UNCHANGED transports
          ELSE IF request.pathname = "/health"
          THEN res' = Response(200, "ok", FALSE, FALSE) /\ UNCHANGED transports
          ELSE IF request.pathname \notin {"/mcp", "/"}
          THEN res' = Response(404, "Not Found", FALSE, FALSE) /\ UNCHANGED transports
          ELSE IF ~validateApiKey(request)
          THEN res' = Response(401, "Unauthorized", FALSE, FALSE) /\ UNCHANGED transports
          ELSE IF request.method = "POST"
          THEN IF known
               THEN res' = Response(200, "transport", TRUE, FALSE) /\ UNCHANGED transports
               ELSE IF Cardinality(transports) >= maxSessions
               THEN /\ res' = Response(503, "Service Unavailable", FALSE, FALSE)
                    /\ UNCHANGED transports
               ELSE IF request.initialize
               THEN /\ \E newSessionId \in SessionIds \ transports :
                           transports' = transports \cup {newSessionId}
                    /\ res' = Response(200, "transport", TRUE, TRUE)
               ELSE /\ res' = Response(400, "transport", TRUE, FALSE)
                    /\ UNCHANGED transports
          ELSE IF request.method = "GET"
          THEN IF known
               THEN res' = Response(200, "transport", TRUE, FALSE) /\ UNCHANGED transports
               ELSE res' = Response(400, "Bad Request", FALSE, FALSE) /\ UNCHANGED transports
          ELSE IF request.method = "DELETE"
          THEN /\ transports' = IF known THEN transports \ {request.sessionId}
                                ELSE transports
               /\ res' = Response(204, "", known, FALSE)
          ELSE res' = Response(404, "Not Found", FALSE, FALSE) /\ UNCHANGED transports

\* The ids randomUUID may give while POST requests are in flight.
NewSessionIds == 1..(MaxSessions + MaxConnecting)

\* The POST branch up to await server.connect(transport): the request has
\* no known session, the map is below the cap, a transport is created.
PostAccepted(request) ==
    /\ request.method = "POST"
    /\ request.pathname \in {"/mcp", "/"}
    /\ request.initialize
    /\ validateApiKey(request)
    /\ ~(request.sessionId # 0 /\ request.sessionId \in transports)
    /\ Cardinality(transports) < maxSessions
    /\ connecting < MaxConnecting
    /\ connecting' = connecting + 1
    /\ req' = request
    /\ UNCHANGED <<transports, API_KEY, res, store, syncVars, queryVars, serviceVars>>

\* transport.handleRequest of an accepted POST: onsessioninitialized puts
\* the new session into the map.
SessionInitialized ==
    /\ connecting > 0
    /\ connecting' = connecting - 1
    /\ \E newSessionId \in NewSessionIds \ transports :
          transports' = transports \cup {newSessionId}
    /\ res' = Response(200, "transport", TRUE, TRUE)
    /\ UNCHANGED <<API_KEY, req, store, syncVars, queryVars, serviceVars>>

\* transport.onclose: the client went away.
TransportClosed(sid) ==
    /\ sid \in transports
    /\ transports' = transports \ {sid}
    /\ UNCHANGED <<API_KEY, req, res, connecting, store, syncVars, queryVars, serviceVars>>

-----------------------------------------------------------------------------
(* GarminService.ensureAuthenticated and the console-suppressing calls *)

ConsoleCalls == {1, 2}

\* The methods of console that some call rebinds.
ConsoleMethods == {"log", "error", "warn", "info"}

Original == <<"original", 0>>

\* The function () => {} that call c created.
Noop(c) == <<"noop", c>>

NoLogin == [at |-> 0, outcome |-> "none"]

\* The state after construction: nobody is logged in, console is untouched.
AuthIdle ==
    /\ isAuthenticated = FALSE
    /\ lastAuthTime = 0
    /\ clock = 0
    /\ now = 0
    /\ apc = "idle"
    /\ lastLogin = NoLogin

ConsoleIdle ==
    /\ console = [m \in ConsoleMethods |-> Original]
    /\ originals = [c \in ConsoleCalls |-> <<>>]
    /\ cpc = [c \in ConsoleCalls |-> "idle"]

ServiceIdle == AuthIdle /\ ConsoleIdle

\* The console-suppressing calls and the methods each rebinds:
\* suppressConsole, GarminService.silentCall, the login step of sync.
Suppressors == {"suppressConsole", "silentCall", "syncLogin"}

MethodsOf(kind) ==
    IF kind = "silentCall" THEN {"log", "warn", "info"} ELSE {"log", "error"}

\* The call saves the functions bound now and binds no-ops; then it awaits.
Suppress(c, kind) ==
    /\ cpc[c] = "idle"
    /\ originals' = [originals EXCEPT ![c] = [m \in MethodsOf(kind) |-> console[m]]]
    /\ console' = [m \in ConsoleMethods |->
                      IF m \in MethodsOf(kind) THEN Noop(c) ELSE console[m]]
    /\ cpc' = [cpc EXCEPT ![c] = kind]
    /\ UNCHANGED <<store, syncVars, queryVars, httpVars, authVars>>

\* The awaited call returns or throws: on both paths the call binds the
\* functions it saved.
Restore(c) ==
    /\ cpc[c] # "idle"
    /\ console' = [m \in ConsoleMethods |->
                      IF m \in DOMAIN originals[c] THEN originals[c][m] ELSE console[m]]
    /\ originals' = [originals EXCEPT ![c] = <<>>]
    /\ cpc' = [cpc EXCEPT ![c] = "idle"]
    /\ UNCHANGED <<store, syncVars, queryVars, httpVars, authVars>>

authTimeout == AuthTimeout

\* Date.now() advances, also while a login is awaited.
Tick ==
    /\ clock < MaxClock
    /\ clock' = clock + 1
    /\ UNCHANGED <<isAuthenticated, lastAuthTime, now, apc, lastLogin>>
    /\ UNCHANGED <<store, syncVars, queryVars, httpVars, consoleVars>>

\* ensureAuthenticated that takes a login of exactly authTimeout for fresh.
EnsureAuthenticatedLate ==
    /\ apc = "idle"
    /\ now' = clock
    /\ IF isAuthenticated /\ now' - lastAuthTime <= authTimeout
       THEN /\ apc' = "operating"
            /\ UNCHANGED lastLogin
       ELSE /\ apc' = "login"
            /\ lastLogin' = [at |-> clock, outcome |-> "pending"]
    /\ UNCHANGED <<isAuthenticated, lastAuthTime, clock>>
    /\ UNCHANGED <<store, syncVars, queryVars, httpVars, consoleVars>>

\* An operation of GarminService starts: ensureAuthenticated up to the
\* login call.
EnsureAuthenticated ==
    /\ apc = "idle"
    /\ now' = clock
    /\ IF isAuthenticated /\ now' - lastAuthTime < authTimeout
       THEN /\ apc' = "operating"
            /\ UNCHANGED lastLogin
       ELSE /\ apc' = "login"
            /\ lastLogin' = [at |-> clock, outcome |-> "pending"]
    /\ UNCHANGED <<isAuthenticated, lastAuthTime, clock>>
    /\ UNCHANGED <<store, syncVars, queryVars, httpVars, consoleVars>>

\* await this.garminConnect.login() returns or throws.
LoginReturns(ok) ==
    /\ apc = "login"
    /\ IF ok
       THEN /\ isAuthenticated' = TRUE
            /\ lastAuthTime' = now
            /\ apc' = "operating"
       ELSE /\ isAuthenticated' = FALSE
            /\ apc' = "idle"
            /\ UNCHANGED lastAuthTime
    /\ lastLogin' = [lastLogin EXCEPT !.outcome = IF ok THEN "ok" ELSE "failed"]
    /\ UNCHANGED <<clock, now>>
    /\ UNCHANGED <<store, syncVars, queryVars, httpVars, consoleVars>>

\* The operation that called ensureAuthenticated returns.
OperationReturns ==
    /\ apc = "operating"
    /\ apc' = "idle"
    /\ UNCHANGED <<isAuthenticated, lastAuthTime, clock, now, lastLogin>>
    /\ UNCHANGED <<store, syncVars, queryVars, httpVars, consoleVars>>

-----------------------------------------------------------------------------
(* Specification *)

Init ==
    /\ store \in SeedStores
    /\ remote \in Remotes
    /\ pc = [r \in Runs |-> "idle"]
    /\ db = [r \in Runs |-> "null"]
    /\ handles = [r \in Runs |-> "none"]
    /\ start = [r \in Runs |-> 0]
    /\ page = [r \in Runs |-> <<>>]
    /\ newActivities = [r \in Runs |-> <<>>]
    /\ result = [r \in Runs |-> NoResult]
    /\ env = [r \in Runs |-> [username |-> TRUE, password |-> TRUE]]
    /\ calls = [r \in Runs |-> NoCalls]
    /\ store0 = [r \in Runs |-> store]
    /\ qtext = <<>>
    /\ qresult = [NoQueryResult EXCEPT !.status = "none"]
    /\ MAX_QUERY_CHARS = Undefined
    /\ HttpIdle
    /\ ServiceIdle

\* What initializeDatabase may do; it is not called without credentials.
OpenOutcomes(username, password) ==
    IF username /\ password THEN {"ok", "open error", "create error"} ELSE {"ok"}

Next ==
    \/ \E r \in Runs, username, password \in BOOLEAN :
          \E opens \in OpenOutcomes(username, password) :
              SyncStart(r, username, password, opens)
    \/ \E r \in Runs, outcome \in {"ok", "login page", "other"} : Login(r, outcome)
    \/ \E r \in Runs, ok \in BOOLEAN : GetActivities(r, ok)
    \/ \E r \in Runs : Classify(r)
    \/ \E r \in Runs : \E bad \in SUBSET (1..Len(newActivities[r])) : Save(r, bad)
    \/ \E r \in Runs : Report(r)

Spec == Init /\ [][Next]_vars

\* The tables runQuery is tried on: no row, one row, two rows.
QueryStores ==
    {t \in SeedStores : \A row \in BagToSet(t) : row.start_time_local # NULL}

\* The query gateway on every text of QueryTexts with the length limit at
\* its default, and on the named texts under every setting of QueryEnvs.
InitQuery ==
    /\ store \in QueryStores
    /\ remote = <<>>
    /\ pc = [r \in Runs |-> "idle"]
    /\ db = [r \in Runs |-> "null"]
    /\ handles = [r \in Runs |-> "none"]
    /\ start = [r \in Runs |-> 0]
    /\ page = [r \in Runs |-> <<>>]
    /\ newActivities = [r \in Runs |-> <<>>]
    /\ result = [r \in Runs |-> NoResult]
    /\ env = [r \in Runs |-> [username |-> TRUE, password |-> TRUE]]
    /\ calls = [r \in Runs |-> NoCalls]
    /\ store0 = [r \in Runs |-> store]
    /\ \/ qtext \in QueryTexts /\ MAX_QUERY_CHARS = Undefined
       \/ qtext \in NamedTexts /\ MAX_QUERY_CHARS \in QueryEnvs
    /\ qresult = NoQueryResult
    /\ HttpIdle
    /\ ServiceIdle

NextQuery == RunQuery

SpecQuery == InitQuery /\ [][NextQuery]_vars

\* The texts tried while syncs run: a read, and the write that gets past
\* the keyword scan.
SystemTexts == {SelectText, ReturningText}

SystemRemotes == {list \in Remotes : Len(list) <= MaxSystemRemote}

\* Sync invocations and a runQuery call in any order on one table.
InitSystem ==
    /\ store \in SeedStores
    /\ remote \in SystemRemotes
    /\ pc = [r \in Runs |-> "idle"]
    /\ db = [r \in Runs |-> "null"]
    /\ handles = [r \in Runs |-> "none"]
    /\ start = [r \in Runs |-> 0]
    /\ page = [r \in Runs |-> <<>>]
    /\ newActivities = [r \in Runs |-> <<>>]
    /\ result = [r \in Runs |-> NoResult]
    /\ env = [r \in Runs |-> [username |-> TRUE, password |-> TRUE]]
    /\ calls = [r \in Runs |-> NoCalls]
    /\ store0 = [r \in Runs |-> store]
    /\ qtext \in SystemTexts
    /\ qresult = NoQueryResult
    /\ MAX_QUERY_CHARS = Undefined
    /\ HttpIdle
    /\ ServiceIdle

NextSystem == Next \/ NextQuery

SpecSystem == InitSystem /\ [][NextSystem]_vars

\* The remotes and tables the termination of an invocation is checked on:
\* finitely many records, an empty page beyond the last one.
LiveRecords == {rec \in RemoteRecords : rec.activityId \in UntimedIds}

LiveRemotes == SeqsUpTo(LiveRecords, MaxLiveRemote)

LiveStores == {table \in SeedStores : BagCardinality(table) <= 1}

InitLive ==
    /\ store \in LiveStores
    /\ remote \in LiveRemotes
    /\ pc = [r \in Runs |-> "idle"]
    /\ db = [r \in Runs |-> "null"]
    /\ handles = [r \in Runs |-> "none"]
    /\ start = [r \in Runs |-> 0]
    /\ page = [r \in Runs |-> <<>>]
    /\ newActivities = [r \in Runs |-> <<>>]
    /\ result = [r \in Runs |-> NoResult]
    /\ env = [r \in Runs |-> [username |-> TRUE, password |-> TRUE]]
    /\ calls = [r \in Runs |-> NoCalls]
    /\ store0 = [r \in Runs |-> store]
    /\ qtext = <<>>
    /\ qresult = [NoQueryResult EXCEPT !.status = "none"]
    /\ MAX_QUERY_CHARS = Undefined
    /\ HttpIdle
    /\ ServiceIdle

\* A step of invocation r after its start: every call it awaits returns
\* or fails.
Progress(r) ==
    \/ \E outcome \in {"ok", "login page", "other"} : Login(r, outcome)
    \/ \E ok \in BOOLEAN : GetActivities(r, ok)
    \/ Classify(r)
    \/ \E bad \in SUBSET (1..Len(newActivities[r])) : Save(r, bad)
    \/ Report(r)

SpecLive == InitLive /\ [][Next]_vars /\ \A r \in Runs : WF_vars(Progress(r))

\* Two invocations on one table, as two sync-activities calls of the HTTP
\* server make them: each step of one may come between two steps of the
\* other. The provider lists an activity once, newest first.
Racers == {1, 2}

RaceIds == Ids \cup {43}

RaceRecords ==
    [activityId : RaceIds, startTimeLocal : Times, calories : RemoteCalories]

RaceRemotes ==
    {list \in SeqsUpTo(RaceRecords, MaxRaceRemote) :
        /\ \A i, j \in 1..Len(list) :
              i < j => /\ list[i].startTimeLocal >= list[j].startTimeLocal
                       /\ list[i].activityId # list[j].activityId}

InitRace ==
    /\ store \in SeedStores
    /\ remote \in RaceRemotes
    /\ pc = [r \in Racers |-> "idle"]
    /\ db = [r \in Racers |-> "null"]
    /\ handles = [r \in Racers |-> "none"]
    /\ start = [r \in Racers |-> 0]
    /\ page = [r \in Racers |-> <<>>]
    /\ newActivities = [r \in Racers |-> <<>>]
    /\ result = [r \in Racers |-> NoResult]
    /\ env = [r \in Racers |-> [username |-> TRUE, password |-> TRUE]]
    /\ calls = [r \in Racers |-> NoCalls]
    /\ store0 = [r \in Racers |-> store]
    /\ qtext = <<>>
    /\ qresult = [NoQueryResult EXCEPT !.status = "none"]
    /\ MAX_QUERY_CHARS = Undefined
    /\ HttpIdle
    /\ ServiceIdle

\* Each invocation is made once; a fetch and a row of the batch may fail.
NextRace ==
    \/ \E r \in Racers : pc[r] = "idle" /\ SyncStart(r, TRUE, TRUE, "ok")
    \/ \E r \in Racers : Login(r, "ok")
    \/ \E r \in Racers, ok \in BOOLEAN : GetActivities(r, ok)
    \/ \E r \in Racers : Classify(r)
    \/ \E r \in Racers : \E bad \in SUBSET (1..Len(newActivities[r])) : Save(r, bad)
    \/ \E r \in Racers : Report(r)

SpecRace == InitRace /\ [][NextRace]_vars

\* Activity objects whose startTimeLocal may also be a text that is no date.
UnparsedRecords ==
    RemoteRecords \cup [activityId : Ids, startTimeLocal : {Garbage},
                        calories : RemoteCalories]

UnparsedRemotes == SeqsUpTo(UnparsedRecords, MaxUnparsedRemote)

InitUnparsed ==
    /\ store \in SeedStores
    /\ remote \in UnparsedRemotes
    /\ pc = [r \in Runs |-> "idle"]
    /\ db = [r \in Runs |-> "null"]
    /\ handles = [r \in Runs |-> "none"]
    /\ start = [r \in Runs |-> 0]
    /\ page = [r \in Runs |-> <<>>]
    /\ newActivities = [r \in Runs |-> <<>>]
    /\ result = [r \in Runs |-> NoResult]
    /\ env = [r \in Runs |-> [username |-> TRUE, password |-> TRUE]]
    /\ calls = [r \in Runs |-> NoCalls]
    /\ store0 = [r \in Runs |-> store]
    /\ qtext = <<>>
    /\ qresult = [NoQueryResult EXCEPT !.status = "none"]
    /\ MAX_QUERY_CHARS = Undefined
    /\ HttpIdle
    /\ ServiceIdle

SpecUnparsed == InitUnparsed /\ [][Next]_vars

\* No sync, no query: the cache as the other components leave it alone.
CacheIdle ==
    /\ store = EmptyBag
    /\ remote = <<>>
    /\ pc = [r \in Runs |-> "idle"]
    /\ db = [r \in Runs |-> "null"]
    /\ handles = [r \in Runs |-> "none"]
    /\ start = [r \in Runs |-> 0]
    /\ page = [r \in Runs |-> <<>>]
    /\ newActivities = [r \in Runs |-> <<>>]
    /\ result = [r \in Runs |-> NoResult]
    /\ env = [r \in Runs |-> [username |-> TRUE, password |-> TRUE]]
    /\ calls = [r \in Runs |-> NoCalls]
    /\ store0 = [r \in Runs |-> store]
    /\ qtext = <<>>
    /\ qresult = [NoQueryResult EXCEPT !.status = "none"]
    /\ MAX_QUERY_CHARS = Undefined

InitAuth == CacheIdle /\ HttpIdle /\ ServiceIdle

NextAuth ==
    \/ Tick
    \/ EnsureAuthenticated
    \/ \E ok \in BOOLEAN : LoginReturns(ok)
    \/ OperationReturns

SpecAuth == InitAuth /\ [][NextAuth]_vars

InitConsole == CacheIdle /\ HttpIdle /\ ServiceIdle

NextConsole ==
    \/ \E c \in ConsoleCalls, kind \in Suppressors : Suppress(c, kind)
    \/ \E c \in ConsoleCalls : Restore(c)

SpecConsole == InitConsole /\ [][NextConsole]_vars

InitHttp ==
    /\ store = EmptyBag
    /\ remote = <<>>
    /\ pc = [r \in Runs |-> "idle"]
    /\ db = [r \in Runs |-> "null"]
    /\ handles = [r \in Runs |-> "none"]
    /\ start = [r \in Runs |-> 0]
    /\ page = [r \in Runs |-> <<>>]
    /\ newActivities = [r \in Runs |-> <<>>]
    /\ result = [r \in Runs |-> NoResult]
    /\ env = [r \in Runs |-> [username |-> TRUE, password |-> TRUE]]
    /\ calls = [r \in Runs |-> NoCalls]
    /\ store0 = [r \in Runs |-> store]
    /\ qtext = <<>>
    /\ qresult = [NoQueryResult EXCEPT !.status = "none"]
    /\ MAX_QUERY_CHARS = Undefined
    /\ transports = {}
    /\ connecting = 0
    /\ API_KEY \in ApiKeys
    /\ req = NoRequest
    /\ res = NoResponse
    /\ ServiceIdle

NextHttp ==
    \/ \E request \in Requests : HandleRequest(request)
    \/ \E sid \in SessionIds : TransportClosed(sid)

SpecHttp == InitHttp /\ [][NextHttp]_vars

\* Requests to /mcp of a server without API_KEY.
OpenRequests ==
    {request \in Requests :
        request.pathname = "/mcp" /\ request.authorization = Undefined}

InitHttpOpen == CacheIdle /\ HttpIdle /\ ServiceIdle

\* Requests whose handlers run one after the other, and POST requests whose
\* handlers are suspended at await server.connect while others are handled.
NextHttpOpen ==
    \/ \E request \in OpenRequests : HandleRequest(request)
    \/ \E request \in OpenRequests : PostAccepted(request)
    \/ SessionInitialized
    \/ \E sid \in NewSessionIds : TransportClosed(sid)

SpecHttpOpen == InitHttpOpen /\ [][NextHttpOpen]_vars

-----------------------------------------------------------------------------
(* Vocabulary of the properties *)

\* latestWatermark(): the newest start_time_local in the table, NULL if none.
Watermark(table) == MaxStartTimeLocal(table)

HasTime(rec) == "startTimeLocal" \in DOMAIN rec

\* The row a remote record is cached as.
AsRow(rec) ==
    [activity_id |-> rec.activityId,
     start_time_local |-> IF HasTime(rec) THEN rec.startTimeLocal ELSE NULL,
     calories |-> rec.calories]

\* Every record carries a timestamp and none is newer than one before it.
NewestFirst(list) ==
    /\ \A i \in 1..Len(list) : HasTime(list[i])
    /\ \A i, j \in 1..Len(list) :
          i < j => list[i].startTimeLocal >= list[j].startTimeLocal

\* Positions of the records strictly newer than t.
NewerThan(list, t) ==
    {i \in 1..Len(list) : HasTime(list[i]) /\ list[i].startTimeLocal > t}

IdsAt(list, idx) == {list[i].activityId : i \in idx}

\* The last of the positions idx that carries the id.
LastAt(list, idx, id) ==
    CHOOSE i \in idx : /\ list[i].activityId = id
                       /\ \A j \in idx : list[j].activityId = id => j <= i

\* The table after the records at positions idx have been upserted in order.
Upserted(table, list, idx) ==
    SetToBag({row \in BagToSet(table) : row.activity_id \notin IdsAt(list, idx)}
             \cup {AsRow(list[LastAt(list, idx, id)]) : id \in IdsAt(list, idx)})

PrimaryKeyUnique(table) ==
    /\ \A row \in BagToSet(table) : CopiesIn(row, table) = 1
    /\ \A a, b \in BagToSet(table) : a.activity_id = b.activity_id => a = b

Succeeded(r) == pc[r] = "done" /\ result[r].error = "none"

Failed(r, msg) == pc[r] = "done" /\ result[r].error = msg

MissingCredentials ==
    "Missing GARMIN_USERNAME or GARMIN_PASSWORD in environment variables"

-----------------------------------------------------------------------------
(* Properties of the query gateway *)

Returned == qresult.status = "returned"

\* C1: a call of runQuery leaves the table as it was, whether it returns
\* rows or throws, and the three texts DELETE FROM activities,
\* SELECT 1; DROP TABLE activities and UPDATE activities SET calories=0
\* are rejected with an error.
C1_QueryLeavesStore ==
    /\ [][qresult' # qresult => store' = store]_vars
    /\ []((Returned /\ qtext \in {DeleteText, StackedText, UpdateText}) =>
            qresult.error # "none")

\* A delete that passes the lexical checks and returns rows has been
\* stopped by the read-only handle, on a table that holds rows.
C1_Witness ==
    /\ Returned
    /\ qtext = ReturningText
    /\ qresult.error = "attempt to write a readonly database"
    /\ store # EmptyBag

\* A blocked keyword stands in the text outside every quoted literal, as
\* the engine delimits them.
KeywordOutsideLiterals(text) ==
    LET toks == Tokens(text, 1)
    IN \E i \in 1..Len(toks) : toks[i] \in BlockedKeywords

\* C10: runQuery rejects every text in which a blocked keyword occurs as a
\* whole word outside the quoted literals.
C10_KeywordsRejected ==
    (Returned /\ KeywordOutsideLiterals(qtext)) => qresult.error # "none"

-----------------------------------------------------------------------------
(* Properties of the sync engine *)

\* C2: a successful sync of a newest-first remote against a table whose
\* watermark is T commits exactly the remote records strictly newer than T:
\* the table is the old one with those records upserted, rows of every
\* other id keep their old values, and newActivitiesCount is their number.
C2_IncrementalCorrectness ==
    \A r \in Runs :
        (Succeeded(r) /\ Watermark(store0[r]) # NULL /\ NewestFirst(remote)) =>
            LET newer == NewerThan(remote, Watermark(store0[r]))
            IN /\ store = Upserted(store0[r], remote, newer)
               /\ result[r].newActivitiesCount = Cardinality(newer)

\* Timestamps T+1, T, T-1: one record is committed and the stored row whose
\* id comes back at T keeps its old calories.
C2_Witness ==
    \E r \in Runs :
        /\ Succeeded(r)
        /\ Len(remote) = 3
        /\ NewestFirst(remote)
        /\ Watermark(store0[r]) = remote[2].startTimeLocal
        /\ remote[1].startTimeLocal > remote[2].startTimeLocal
        /\ remote[2].startTimeLocal > remote[3].startTimeLocal
        /\ remote[1].activityId # remote[2].activityId
        /\ result[r].newActivitiesCount = 1
        /\ \E row \in BagToSet(store) :
              /\ row.activity_id = remote[2].activityId
              /\ row.calories \in StoredCalories
              /\ row \in BagToSet(store0[r])

\* C3: after a sync that returns without an error the watermark is not
\* below its value before the sync.
C3_WatermarkMonotone ==
    \A r \in Runs : Succeeded(r) => Watermark(store) >= Watermark(store0[r])

\* C4: saveActivities is all-or-nothing: a batch in which a row fails leaves
\* the table as it was, and after a batch that succeeds every record's id
\* has a row holding the values of the batch's last record for that id.
C4_AllOrNothing ==
    [][\A r \in Runs :
          (pc[r] = "save" /\ Len(newActivities[r]) > 0) =>
              /\ pc'[r] = "done" => store' = store
              /\ pc'[r] = "report" =>
                    LET batch == newActivities[r]
                        all == 1..Len(batch)
                    IN \A i \in all :
                          CopiesIn(AsRow(batch[LastAt(batch, all, batch[i].activityId)]),
                                   store') = 1]_vars

\* A batch of several rows of which one failed has been rolled back.
C4_Witness ==
    \E r \in Runs :
        /\ Failed(r, "activities failed to save")
        /\ result[r].errorArg = 1
        /\ Watermark(store0[r]) = NULL
        /\ Len(remote) >= 2
        /\ store = store0[r]

\* C5: no two rows share an activity_id, and a batch that upserts an id
\* already stored replaces that row's values by those of the batch's last
\* record for the id and adds no row for it.
C5_UniqueLastWriteWins ==
    /\ [](PrimaryKeyUnique(store))
    /\ [][\A r \in Runs :
            (pc[r] = "save" /\ pc'[r] = "report" /\ Len(newActivities[r]) > 0) =>
                LET batch == newActivities[r]
                    all == 1..Len(batch)
                    had == {row.activity_id : row \in BagToSet(store)}
                IN /\ \A id \in IdsAt(batch, all) :
                        \A row \in BagToSet(store') :
                            row.activity_id = id =>
                                row = AsRow(batch[LastAt(batch, all, id)])
                   /\ BagCardinality(store') =
                        BagCardinality(store) + Cardinality(IdsAt(batch, all) \ had)]_vars

\* A stored row has been replaced by the remote's values, the count kept.
C5_Witness ==
    \E r \in Runs :
        /\ Succeeded(r)
        /\ BagCardinality(store) = BagCardinality(store0[r])
        /\ \E old \in BagToSet(store0[r]), row \in BagToSet(store) :
              /\ old.activity_id = row.activity_id
              /\ old.calories \in StoredCalories
              /\ row.calories \in RemoteCalories

\* C6: once a batch has been saved, saving the same batch again yields the
\* same table: the same number of rows, each with the same contents.
C6_UpsertIdempotent ==
    \A r \in Runs :
        (pc[r] = "report" /\ Len(newActivities[r]) > 0) =>
            LET again == saveActivities(store, newActivities[r], {})
            IN /\ again.ok
               /\ getActivitiesCount(again.table) = getActivitiesCount(store)
               /\ again.table = store

\* A batch of several records, one of them for an id stored before, is in.
C6_Witness ==
    \E r \in Runs :
        /\ pc[r] = "report"
        /\ Len(newActivities[r]) >= 2
        /\ \E i \in 1..Len(newActivities[r]) :
              newActivities[r][i].activityId \in
                  {row.activity_id : row \in BagToSet(store0[r])}

\* C7: a sync in which a getActivities call failed returns an error result
\* and leaves the table, and with it the watermark, as it was; and the table
\* after any successful sync, one retried after failures included, is the
\* table a failure-free sync from the same table and remote produces.
C7_FetchFailureDiscards ==
    \A r \in Runs :
        /\ Failed(r, "fetch error") =>
              /\ store = store0[r]
              /\ Watermark(store) = Watermark(store0[r])
              /\ result[r].newActivitiesCount = 0
        /\ Succeeded(r) => store = SyncOutcome(store0[r], remote)

\* The fetch of a later page failed after a first page of new records.
C7_Witness ==
    \E r \in Runs :
        /\ Failed(r, "fetch error")
        /\ calls[r].getActivities >= 2
        /\ Watermark(store0[r]) = NULL
        /\ Len(remote) >= 1

\* C8: with a credential absent the sync returns the missing-credentials
\* error without having opened the database, logged in or fetched a page,
\* and the table is as it was.
C8_MissingCredentialsFirst ==
    \A r \in Runs :
        (pc[r] # "idle" /\ (~env[r].username \/ ~env[r].password)) =>
            /\ Failed(r, MissingCredentials)
            /\ calls[r] = NoCalls
            /\ db[r] = "null"
            /\ store = store0[r]

\* The user name is set and the password is not.
C8_Witness ==
    \E r \in Runs :
        /\ env[r].username /\ ~env[r].password
        /\ Failed(r, MissingCredentials)

\* C9: a successful sync of a table without watermark buffers every record
\* of the remote and commits them (with distinct ids into an empty table,
\* as many rows as records); the reported total and latest date are the
\* table's row count and watermark after the commit.
C9_FullBackfill ==
    \A r \in Runs :
        Succeeded(r) =>
            /\ result[r].totalActivities = BagCardinality(store)
            /\ result[r].latestActivityDate = Watermark(store)
            /\ Watermark(store0[r]) = NULL =>
                  /\ result[r].newActivitiesCount = Len(remote)
                  /\ store = Upserted(store0[r], remote, 1..Len(remote))
                  /\ (/\ store0[r] = EmptyBag
                      /\ Cardinality(IdsAt(remote, 1..Len(remote))) = Len(remote)) =>
                        result[r].totalActivities = Len(remote)

\* An empty table, two pages of records and then an empty page.
C9_Witness ==
    \E r \in Runs :
        /\ Succeeded(r)
        /\ store0[r] = EmptyBag
        /\ Len(remote) > limit
        /\ calls[r].getActivities = 3
        /\ result[r].newActivitiesCount = Len(remote)

-----------------------------------------------------------------------------
(* Properties of the validation pipeline *)

\* The six validation steps of runQuery.
ValidationSteps == {"empty", "length", "terminator", "prefix", "keyword", "reader"}

\* C11: two texts that different validation steps of runQuery reject are
\* rejected with different reasons, so the reason tells the step.
C11_DistinctReasons ==
    \A t \in NamedTexts :
        LET other == runQuery(t, store)
        IN (/\ Returned
            /\ qresult.step \in ValidationSteps
            /\ other.step \in ValidationSteps
            /\ other.step # qresult.step) => other.error # qresult.error

\* The text without its last atom when that is a terminator.
StripOneTerminator(text) ==
    IF text # <<>> /\ text[Len(text)] = ";"
    THEN SubSeq(text, 1, Len(text) - 1)
    ELSE text

\* The text without the run of terminators it ends with.
RECURSIVE StripTerminatorRun(_)
StripTerminatorRun(text) ==
    IF text # <<>> /\ text[Len(text)] = ";"
    THEN StripTerminatorRun(SubSeq(text, 1, Len(text) - 1))
    ELSE text

\* A terminator with a further statement behind it.
TwoStatements(text) ==
    \E i \in 1..Len(text) :
        /\ text[i] = ";"
        /\ \E j \in (i + 1)..Len(text) : text[j] \notin {";", " "}

\* The call got as far as the engine.
Executed == Returned /\ qresult.handle # "none"

\* C12 as stated: runQuery strips exactly one trailing terminator and
\* rejects the text if a terminator remains: SELECT 1; is accepted, a text
\* with a terminator before its end or with more than one trailing
\* terminator is rejected, and no text of two statements is executed.
C12_OneTerminatorStripped ==
    Returned =>
        /\ (qtext = TerminatedText /\ MAX_QUERY_CHARS = Undefined) =>
              qresult.error = "none"
        /\ Includes(StripOneTerminator(trim(qtext)), ";") => qresult.error # "none"
        /\ TwoStatements(qtext) => ~Executed

\* C12 as amended: runQuery strips the whole run of terminators the
\* trimmed text ends with and rejects the text if a terminator remains:
\* SELECT 1; and SELECT 1;; are accepted, a text with a terminator before
\* that run is rejected, and no text of two statements is executed.
C12_TerminatorRunStripped ==
    Returned =>
        /\ (qtext \in {TerminatedText, TwiceTerminatedText}
               /\ MAX_QUERY_CHARS = Undefined) => qresult.error = "none"
        /\ Includes(StripTerminatorRun(trim(qtext)), ";") =>
              qresult.error # "none" /\ ~Executed
        /\ TwoStatements(qtext) => ~Executed

\* SELECT 1;; has been executed, SELECT 1; DROP TABLE activities refused.
C12_Witness ==
    /\ Returned
    /\ \/ qtext = TwiceTerminatedText /\ qresult.error = "none"
       \/ qtext = StackedText /\ qresult.step = "terminator"
    /\ MAX_QUERY_CHARS = Undefined

\* The literals of the text as the engine delimits them: <<open, close>>.
RECURSIVE LiteralSpans(_, _)
LiteralSpans(text, i) ==
    IF i > Len(text) THEN {}
    ELSE IF text[i] \in Quotes
         THEN LET e == CloseOf(text, text[i], i + 1)
              IN IF e = 0 THEN {} ELSE {<<i, e>>} \cup LiteralSpans(text, e + 1)
    ELSE LiteralSpans(text, i + 1)

\* Blocked keywords occur in the text, and only inside quoted literals.
KeywordOnlyInLiterals(text) ==
    /\ ~KeywordOutsideLiterals(text)
    /\ \E span \in LiteralSpans(text, 1) :
          \E j \in (span[1] + 1)..(span[2] - 1) : Lower(text[j]) \in BlockedKeywords

\* The text is one reading statement.
SingleSelect(text) ==
    LET statement == StripTerminatorRun(trim(text))
    IN ~Includes(statement, ";") /\ Compile(statement) = "read"

UpperWords ==
    {"SELECT", "WITH", "DELETE", "UPDATE", "DROP", "RETURNING", "FROM", "TABLE",
     "SET", "AS", "WHERE", "IN", "LIMIT", "REPLACE", "X"}

Upper(a) ==
    IF \E u \in UpperWords : Lower(u) = a
    THEN CHOOSE u \in UpperWords : Lower(u) = a
    ELSE a

ToUpper(text) == [i \in 1..Len(text) |-> Upper(text[i])]

ToLower(text) == [i \in 1..Len(text) |-> Lower(text[i])]

\* The first atom of the trimmed text, in lower case.
FirstWord(text) == IF trim(text) = <<>> THEN "" ELSE Lower(Head(trim(text)))

\* C14: blanks around the text and the case of its letters do not change
\* whether runQuery accepts it, a text whose first word is neither select
\* nor with is rejected without reaching the engine, and the two LIMIT 1
\* texts succeed.
C14_SelectOrWithOnly ==
    Returned =>
        /\ runQuery(<<" ", " ">> \o qtext \o <<" ">>, store).error = qresult.error
        /\ runQuery(ToUpper(qtext), store).error = qresult.error
        /\ runQuery(ToLower(qtext), store).error = qresult.error
        /\ FirstWord(qtext) \notin {"select", "with"} =>
              qresult.error # "none" /\ ~Executed
        /\ (qtext \in {LimitText, PaddedLimitText} /\ MAX_QUERY_CHARS = Undefined) =>
              qresult.error = "none"

\* The padded lower-case text has been executed.
C14_Witness ==
    /\ Returned
    /\ qtext = PaddedLimitText
    /\ qresult.error = "none"
    /\ Executed

\* The configured maximum: 50000 when the variable is unset or is not a
\* number, else its value, and never less than 1.
ConfiguredMaximum(envValue) ==
    IF ~envValue.set \/ parseInt(envValue.text).nan THEN 50000
    ELSE IF parseInt(envValue.text).value < 1 THEN 1
    ELSE parseInt(envValue.text).value

\* C19: runQuery rejects, without executing it, every text whose trimmed
\* length exceeds the configured maximum, and rejects no text for its
\* length whose trimmed length is at most that maximum.
C19_LengthLimit ==
    Returned =>
        LET n == CharLength(trim(qtext))
            maximum == ConfiguredMaximum(MAX_QUERY_CHARS)
        IN /\ n > maximum => qresult.error # "none" /\ ~Executed
           /\ n <= maximum => qresult.step # "length"

-----------------------------------------------------------------------------
(* Properties of the handles, the error reports and the page fetches *)

\* C15: when an operation has returned or thrown, the store handle it
\* opened is closed: no sync invocation that is over and no runQuery call
\* that is over has left a connection open.
C15_HandlesClosed ==
    /\ \A r \in Runs : pc[r] = "done" => handles[r] # "open"
    /\ Returned => qresult.handle # "open"

\* C17: the error a failed batch upsert is reported with carries the
\* number of records of the batch that was being written.
C17_BatchCountReported ==
    [][\A r \in Runs :
          (/\ pc[r] = "save"
           /\ pc'[r] = "done"
           /\ result'[r].error = "activities failed to save") =>
              result'[r].errorArg = Len(newActivities[r])]_vars

\* The record is not newer than the watermark t.
NotNewer(rec, t) == t # NULL /\ ~(HasTime(rec) /\ rec.startTimeLocal > t)

\* C20: within a run the fetches come one after the other at the offsets
\* 0, limit, 2 * limit, ..., and no fetch follows a page that was empty
\* or held a record not newer than the watermark.
C20_SequentialFetches ==
    [][\A r \in Runs :
          /\ calls'[r].getActivities > calls[r].getActivities =>
                /\ pc[r] = "fetch"
                /\ calls'[r].getActivities = calls[r].getActivities + 1
                /\ start[r] = limit * calls[r].getActivities
          /\ (/\ pc[r] = "classify"
              /\ \/ page[r] = <<>>
                 \/ \E i \in 1..Len(page[r]) : NotNewer(page[r][i], Watermark(store)))
                => pc'[r] # "fetch"
          /\ pc[r] \in {"save", "report"} => pc'[r] # "fetch"]_vars

StoredIds(table) == {row.activity_id : row \in BagToSet(table)}

\* C16: no step of a sync invocation or of runQuery removes a row: every
\* stored activity_id stays stored and the row count does not decrease.
C16_NoRowRemoved ==
    [][/\ StoredIds(store) \subseteq StoredIds(store')
       /\ BagCardinality(store') >= BagCardinality(store)]_vars

\* A sync has overwritten a stored row and the write that passes the
\* keyword scan has been refused, with every row still there.
C16_Witness ==
    \E r \in Runs :
        /\ Succeeded(r)
        /\ store # store0[r]
        /\ store0[r] # EmptyBag
        /\ StoredIds(store) = StoredIds(store0[r])
        /\ Returned
        /\ qtext = ReturningText

-----------------------------------------------------------------------------
(* Properties of the HTTP server *)

Answered == res.statusCode # 0

KeyConfigured == API_KEY.set /\ API_KEY.text # <<>>

\* The request carries Authorization: Bearer <key> with the configured key.
CarriesKey(request) ==
    /\ request.authorization.set
    /\ LET t == trim(request.authorization.text)
       IN /\ Len(t) >= 3
          /\ Lower(t[1]) = "bearer"
          /\ trim(Tail(t)) = API_KEY.text

\* C18 as stated: with API_KEY set a request to /mcp or / without the key
\* is answered 401, creates no session and reaches no transport; /health
\* answers ok without a key; with API_KEY unset no request is refused.
C18_KeyRequired ==
    Answered =>
        /\ (KeyConfigured /\ req.pathname \in {"/mcp", "/"} /\ ~CarriesKey(req)) =>
              res.statusCode = 401 /\ ~res.created /\ ~res.reached
        /\ req.pathname = "/health" => res.statusCode = 200 /\ res.body = "ok"
        /\ ~API_KEY.set => res.statusCode # 401

\* C18 as amended: the same of every request but the OPTIONS requests,
\* which are answered 204 before the path and the key are looked at and
\* likewise create no session and reach no transport.
C18_KeyRequiredButPreflight ==
    Answered =>
        /\ (/\ KeyConfigured
            /\ req.method # "OPTIONS"
            /\ req.pathname \in {"/mcp", "/"}
            /\ ~CarriesKey(req)) =>
              res.statusCode = 401 /\ ~res.created /\ ~res.reached
        /\ req.method = "OPTIONS" =>
              res.statusCode = 204 /\ ~res.created /\ ~res.reached
        /\ (req.method # "OPTIONS" /\ req.pathname = "/health") =>
              res.statusCode = 200 /\ res.body = "ok"
        /\ ~API_KEY.set => res.statusCode # 401

\* A POST with another key has been refused while a session was held.
C18_Witness ==
    /\ Answered
    /\ KeyConfigured
    /\ transports # {}
    /\ req.method = "POST"
    /\ req.pathname = "/mcp"
    /\ req.authorization = Str(<<"Bearer", " ", "k2">>)
    /\ res.statusCode = 401

-----------------------------------------------------------------------------
(* Properties of the commit, the login and the termination of a sync *)

\* C21: an invocation writes the table only in its save step, after the
\* pagination loop has ended and with a non-empty buffer, in one step (the
\* transaction); until then the table is as it was when the invocation
\* started, and an invocation whose buffer is empty leaves it untouched.
C21_SingleWriteAfterPagination ==
    [][\A r \in Runs :
          /\ store' # store =>
                /\ pc[r] = "save"
                /\ Len(newActivities[r]) > 0
                /\ pc'[r] = "report"
          /\ pc[r] \in {"login", "fetch", "classify", "save"} => store = store0[r]
          /\ (pc[r] = "save" /\ Len(newActivities[r]) = 0) =>
                store' = store /\ pc'[r] = "report"]_vars

\* Three fetches, then one commit that changed the table.
C21_Witness ==
    \E r \in Runs :
        /\ Succeeded(r)
        /\ calls[r].getActivities = 3
        /\ result[r].newActivitiesCount >= 2
        /\ store # store0[r]

LoginRejected(r) ==
    Failed(r, "Garmin authentication failed") \/ Failed(r, "login error")

\* C23: an invocation whose login was rejected has called login once and
\* getActivities never, returns an error result and leaves the table as it
\* was when the invocation started.
C23_LoginRejectedOnce ==
    \A r \in Runs :
        LoginRejected(r) =>
            /\ calls[r].login = 1
            /\ calls[r].getActivities = 0
            /\ result[r].error # "none"
            /\ result[r].newActivitiesCount = 0
            /\ store = store0[r]

\* The provider answered the login with its login page; rows were cached.
C23_Witness ==
    \E r \in Runs :
        /\ Failed(r, "Garmin authentication failed")
        /\ store # EmptyBag
        /\ Len(remote) > 0

-----------------------------------------------------------------------------
(* Properties of records without a usable timestamp *)

\* The record's startTimeLocal is absent or is no date.
Unusable(rec) == ~HasTime(rec) \/ rec.startTimeLocal = Garbage

\* Classification keeps every record without usable timestamp that it
\* reaches: the records pushed are a prefix of the page, the loop goes on
\* when the whole page was pushed, and the record that fired the stop
\* signal is not one without usable timestamp.
KeptByClassify(r) ==
    (pc[r] = "classify" /\ pc'[r] # "classify" /\ Len(page[r]) > 0) =>
        LET old == Len(newActivities[r])
            k == Len(newActivities'[r]) - old
        IN /\ k \in 0..Len(page[r])
           /\ \A i \in 1..k : newActivities'[r][old + i] = page[r][i]
           /\ k = Len(page[r]) => pc'[r] = "fetch"
           /\ k < Len(page[r]) => pc'[r] = "save" /\ ~Unusable(page[r][k + 1])

\* The row with the id in the table.
RowOf(table, id) == CHOOSE row \in BagToSet(table) : row.activity_id = id

\* C30 as stated: a record whose startTimeLocal is absent or no date is
\* pushed and does not fire the stop signal, whatever the table holds, and
\* the commit stores it with start_time_local NULL.
C30_UnusableCommittedNull ==
    [][\A r \in Runs :
          /\ KeptByClassify(r)
          /\ (pc[r] = "save" /\ pc'[r] = "report") =>
                LET batch == newActivities[r]
                    all == 1..Len(batch)
                IN \A i \in all :
                      (Unusable(batch[i]) /\ i = LastAt(batch, all, batch[i].activityId)) =>
                          RowOf(store', batch[i].activityId).start_time_local = NULL]_vars

\* C30 as amended: the same, and the commit stores start_time_local NULL
\* where the field is absent and the text as it is where it is no date.
C30_UnusableCommittedAsGiven ==
    [][\A r \in Runs :
          /\ KeptByClassify(r)
          /\ (pc[r] = "save" /\ pc'[r] = "report") =>
                LET batch == newActivities[r]
                    all == 1..Len(batch)
                IN \A i \in all :
                      (Unusable(batch[i]) /\ i = LastAt(batch, all, batch[i].activityId)) =>
                          RowOf(store', batch[i].activityId).start_time_local =
                              IF HasTime(batch[i]) THEN batch[i].startTimeLocal ELSE NULL]_vars

\* A table with a watermark has taken a row without start time and a row
\* whose start time is no date.
C30_Witness ==
    \E r \in Runs :
        /\ Succeeded(r)
        /\ Watermark(store0[r]) \in Times
        /\ result[r].newActivitiesCount = 2
        /\ \E a, b \in BagToSet(store) :
              /\ a.start_time_local = NULL
              /\ a.calories \in RemoteCalories
              /\ b.start_time_local = Garbage

-----------------------------------------------------------------------------
(* Properties of two invocations on one table *)

C28_SecondSyncIdle ==
    \A a, b \in Racers :
        (/\ a # b
         /\ Succeeded(a)
         /\ Succeeded(b)
         /\ store0[b] = SyncOutcome(store0[a], remote)) =>
            /\ calls[b].getActivities = 1
            /\ result[b].newActivitiesCount = 0
            /\ store = store0[b]

\* The first sync took three records over two pages, the second none.
C28_Witness ==
    \E a, b \in Racers :
        /\ Succeeded(a)
        /\ Succeeded(b)
        /\ calls[a].getActivities = 3
        /\ result[a].newActivitiesCount = 3
        /\ store0[b] = SyncOutcome(store0[a], remote)
        /\ store0[b] # store0[a]
        /\ result[b].newActivitiesCount = 0

\* C29: when both invocations have returned without error, in whatever
\* order their steps came, no activity_id is stored twice and the table is
\* the one a single sync of the table the first of them found produces.
C29_RaceAsOneSync ==
    (\A r \in Racers : Succeeded(r)) =>
        /\ PrimaryKeyUnique(store)
        /\ \E a \in Racers :
              /\ \A b \in Racers :
                    store0[b] \in {store0[a], SyncOutcome(store0[a], remote)}
              /\ store = SyncOutcome(store0[a], remote)

\* Both invocations started on the same table and both buffered records:
\* one all three over two pages, the other one stopped by the first commit.
C29_Witness ==
    \E a, b \in Racers :
        /\ Succeeded(a)
        /\ Succeeded(b)
        /\ store0[a] = store0[b]
        /\ result[a].newActivitiesCount = 3
        /\ result[b].newActivitiesCount = 2
        /\ calls[b].getActivities = 2
        /\ store # store0[a]

-----------------------------------------------------------------------------
(* Termination of an invocation *)

InFlight(r) == pc[r] \in {"login", "fetch", "classify", "save", "report"}

\* C24: an invocation that has started returns a SyncResult, with or
\* without error.
C24_SyncReturns ==
    \A r \in Runs : InFlight(r) ~> (pc[r] = "done" /\ result[r] # NoResult)

\* On a table with rows the loop has ended on the empty third page.
C24_Witness ==
    \E r \in Runs :
        /\ Succeeded(r)
        /\ store0[r] # EmptyBag
        /\ Len(remote) = 3
        /\ calls[r].getActivities = 3

-----------------------------------------------------------------------------
(* Properties of GarminService.ensureAuthenticated *)

-----------------------------------------------------------------------------
(* Properties of the session cap *)

\* C26: the map never holds more than maxSessions sessions, and a request
\* answered 503 has created none.
C26_SessionCap ==
    /\ Cardinality(transports) <= maxSessions
    /\ res.statusCode = 503 => ~res.created /\ ~res.reached

-----------------------------------------------------------------------------
(* Properties of the console-suppressing calls *)

\* C27: when no console-suppressing call is running, console.log and
\* console.error are the functions they were before the first of them.
C27_ConsoleRestored ==
    (\A c \in ConsoleCalls : cpc[c] = "idle") =>
        console["log"] = Original /\ console["error"] = Original

====
